---- MODULE Spec2Model ----
(***************************************************************************)
(* Conversation state machine of the ChatWidget component                  *)
(* (src/src/components/ChatWedget.tsx).                                    *)
(*                                                                         *)
(* Strings are sequences of tokens (a token is one character or one fixed  *)
(* fragment of text), so that trim, replace, template literals and         *)
(* toString are computed rather than assumed.  An optional value           *)
(* (null / undefined / absent JSON field) is None, a present one Some(v).  *)
(*                                                                         *)
(* The state variables are the useState cells of the component; `calls`    *)
(* holds the activations of handleSendMessage that are suspended at an     *)
(* await, each with the values its closure captured; `now` is Date.now();  *)
(* `event` is the event the event loop dispatched last (a handler with its *)
(* argument, or the settlement of an awaited promise with its value).      *)
(*                                                                         *)
(* handleInputChange and handleSendMessage are dispatched only while the   *)
(* panel is rendered (isOpen).  What a handler does when it runs is        *)
(* modelled, its own guards included; the `disabled` attributes of the     *)
(* input and of the send button stop a user's keyboard and mouse, not a    *)
(* scripted event, so a handler may run while loading is true.             *)
(***************************************************************************)
EXTENDS Integers, Sequences, FiniteSets

VARIABLES isOpen, messages, inputValue, showOnboarding, error, threadId,
          isInitPrompt, loading, calls, now, config, event

vars == <<isOpen, messages, inputValue, showOnboarding, error, threadId,
          isInitPrompt, loading, calls, now, config, event>>

----------------------------------------------------------------------------
(* Bounds *)

\* longest transcript
MaxMessages == 4
\* first value of Date.now() and how far it advances
StartTime == 9
MaxTicks == 1

----------------------------------------------------------------------------
(* Optional values and JavaScript truthiness *)

None == <<>>
Some(v) == <<v>>
Truthy(o) == o # None /\ o[1] # <<>>
\* a || b on optional strings
OrElse(o, d) == IF Truthy(o) THEN o[1] ELSE d

----------------------------------------------------------------------------
(* String functions *)

IsSpace(c) == c = " "

RECURSIVE TrimStart(_)
TrimStart(s) ==
    IF s # <<>> /\ IsSpace(Head(s)) THEN TrimStart(Tail(s)) ELSE s

RECURSIVE TrimEnd(_)
TrimEnd(s) ==
    IF s # <<>> /\ IsSpace(s[Len(s)]) THEN TrimEnd(SubSeq(s, 1, Len(s) - 1)) ELSE s

\* String.prototype.trim
Trim(s) == TrimEnd(TrimStart(s))

Digit(d) == <<"0", "1", "2", "3", "4", "5", "6", "7", "8", "9">>[d + 1]

\* Number.prototype.toString on a non-negative integer
RECURSIVE ToString(_)
ToString(n) ==
    IF n < 10 THEN <<Digit(n)>> ELSE ToString(n \div 10) \o <<Digit(n % 10)>>

\* positions at which pat occurs in s
Occurrences(s, pat) ==
    {i \in 1..(Len(s) - Len(pat) + 1) : SubSeq(s, i, i + Len(pat) - 1) = pat}

\* String.prototype.replace with a string pattern: first occurrence only
Replace(s, pat, rep) ==
    IF Occurrences(s, pat) = {}
    THEN s
    ELSE LET i == CHOOSE j \in Occurrences(s, pat) :
                     \A k \in Occurrences(s, pat) : j <= k
         IN SubSeq(s, 1, i - 1) \o rep \o SubSeq(s, i + Len(pat), Len(s))

\* String.prototype.includes
Includes(s, pat) == Occurrences(s, pat) # {}

----------------------------------------------------------------------------
(* Text literals of the component *)

DefaultInitialUrl == <<"http://localhost:3000/api", "/chat">>
DefaultFollowUpUrl == <<"http://localhost:3000/api", "/chat", "/follow-up">>
ChatPath == <<"/chat">>
FollowUpPath == <<"/chat", "/follow-up">>
HttpErrorPrefix == <<"HTTP error! status: ">>
FailedToGetResponse == <<"Failed to get response from AI">>
NoAnswerText == <<"Sorry, I could not generate a response.">>
UnexpectedError == <<"An unexpected error occurred. Please try again.">>
ErrorPrefix == <<"Error: ">>

----------------------------------------------------------------------------
(* Environment: what the host, the user, the clock and the remote API can  *)
(* supply                                                                  *)

\* config.apiEndpoint: unset, containing '/chat', not containing it
Endpoints ==
    { None,
      Some(<<"https://h/api", "/chat">>),
      Some(<<"https://h", "/ask">>) }

\* e.target.value
InputTexts ==
    { <<>>, <<" ">>, <<" ", "a", " ">>, <<"b", " ", "c">> }

\* values a rejected fetch() can carry: the platform's TypeError, or
\* whatever a replaced global fetch rejects with
FetchFaults ==
    { [isError |-> TRUE, message |-> <<"Failed to fetch">>],
      [isError |-> FALSE, message |-> <<"offline">>] }

\* Response objects a resolved fetch() can carry
Responses ==
    { [ok |-> TRUE, status |-> 200], [ok |-> FALSE, status |-> 500] }

\* the SyntaxError res.json() rejects with on a malformed body
JsonFault == [isError |-> TRUE, message |-> <<"Unexpected token < in JSON">>]

\* the TypeError raised by reading a property of null
NullFault == [isError |-> TRUE, message |-> <<"Cannot read properties of null">>]

Answer(text, source) == [text |-> text, source |-> source]
Body(success, message, tid, answer) ==
    Some([success |-> success, message |-> message, threadId |-> tid,
          answer |-> answer])

\* decoded JSON bodies: None is the JSON value null
JsonBodies ==
    { None,
      Body(TRUE, None, Some(<<"t1">>), Some(Answer(Some(<<"Hi!">>), Some(<<"https://src">>)))),
      Body(TRUE, None, Some(<<"t2">>), Some(Answer(Some(<<>>), None))),
      Body(TRUE, None, None, Some(Answer(Some(<<"Hi!">>), None))),
      Body(TRUE, None, Some(<<>>), None),
      Body(FALSE, Some(<<"quota exceeded">>), None, None),
      Body(FALSE, Some(<<>>), Some(<<"t2">>), None) }

----------------------------------------------------------------------------
(* State after mount (useState initial values, lines 28-36) *)

NoEvent == [name |-> "mount", arg |-> None]

Init ==
    /\ isOpen = FALSE
    /\ messages = <<>>
    /\ inputValue = <<>>
    /\ showOnboarding = TRUE
    /\ error = None
    /\ threadId = None
    /\ isInitPrompt = TRUE
    /\ loading = FALSE
    /\ calls = <<>>
    /\ now = StartTime
    /\ config \in [apiEndpoint : Endpoints]
    /\ event = NoEvent

----------------------------------------------------------------------------
(* Presentation events *)

\* onClick of the launcher button: setIsOpen(true)
Open ==
    /\ isOpen' = TRUE
    /\ event' = [name |-> "open", arg |-> None]
    /\ UNCHANGED <<messages, inputValue, showOnboarding, error, threadId,
                   isInitPrompt, loading, calls, now, config>>

\* variant: the conversation reset when the panel closes
CloseClearingMessages ==
    /\ isOpen
    /\ isOpen' = FALSE
    /\ messages' = <<>>
    /\ event' = [name |-> "close", arg |-> None]
    /\ UNCHANGED <<inputValue, showOnboarding, error, threadId, isInitPrompt,
                   loading, calls, now, config>>

\* onClick of the overlay or of the close button, rendered only when open
Close ==
    /\ isOpen
    /\ isOpen' = FALSE
    /\ event' = [name |-> "close", arg |-> None]
    /\ UNCHANGED <<messages, inputValue, showOnboarding, error, threadId,
                   isInitPrompt, loading, calls, now, config>>

\* Date.now() advances
Tick ==
    /\ now < StartTime + MaxTicks
    /\ now' = now + 1
    /\ UNCHANGED <<isOpen, messages, inputValue, showOnboarding, error,
                   threadId, isInitPrompt, loading, calls, config, event>>

\* variant: the value trimmed on its way into the buffer
handleInputChangeTrimming(value) ==
    /\ isOpen
    /\ inputValue' = Trim(value)
    /\ error' = IF Truthy(error) THEN None ELSE error
    /\ event' = [name |-> "change", arg |-> value]
    /\ UNCHANGED <<isOpen, messages, showOnboarding, threadId, isInitPrompt,
                   loading, calls, now, config>>

\* handleInputChange; the input is rendered when open
handleInputChange(value) ==
    /\ isOpen
    /\ inputValue' = value
    /\ error' = IF Truthy(error) THEN None ELSE error
    /\ event' = [name |-> "change", arg |-> value]
    /\ UNCHANGED <<isOpen, messages, showOnboarding, threadId, isInitPrompt,
                   loading, calls, now, config>>

----------------------------------------------------------------------------
(* handleSendMessage, up to the first await *)

\* variants of the early return: without the loading test, without the
\* trim, and refusing while an error is standing
ShouldReturnIgnoringLoading(value, isLoading) == Trim(value) = <<>>
ShouldReturnUntrimmed(value, isLoading) == value = <<>> \/ isLoading
ShouldReturnOnError(value, isLoading) ==
    Trim(value) = <<>> \/ isLoading \/ Truthy(error)

\* the early return of line 53
ShouldReturn(value, isLoading) == Trim(value) = <<>> \/ isLoading

\* variants: the new message spread before the previous ones; the previous
\* ones left out
AddMessageInFront(prevMessages, m) == <<m>> \o prevMessages
AddMessageAlone(prevMessages, m) == <<m>>

\* the functional updates prevMessages => [...prevMessages, m]
AddMessage(prevMessages, m) == Append(prevMessages, m)

UserMessage(text, t) ==
    [text |-> text, sender |-> "user", source |-> None, id |-> ToString(t)]

\* variants: the initial endpoint whatever the phase; the follow-up endpoint
\* whatever the phase
ApiEndpointAlwaysInitial(isInit, cfg) == OrElse(cfg.apiEndpoint, DefaultInitialUrl)
ApiEndpointAlwaysFollowUp(isInit, cfg) ==
    OrElse(IF cfg.apiEndpoint = None
           THEN None
           ELSE Some(Replace(cfg.apiEndpoint[1], ChatPath, FollowUpPath)),
           DefaultFollowUpUrl)

\* lines 73-75
ApiEndpoint(isInit, cfg) ==
    IF isInit
    THEN OrElse(cfg.apiEndpoint, DefaultInitialUrl)
    ELSE OrElse(IF cfg.apiEndpoint = None
                THEN None
                ELSE Some(Replace(cfg.apiEndpoint[1], ChatPath, FollowUpPath)),
                DefaultFollowUpUrl)

\* lines 77-83; threadId None: the key is absent from the JSON body
RequestBody(query, isInit, tid) ==
    [query |-> query,
     threadId |-> IF ~isInit /\ Truthy(tid) THEN tid ELSE None]

\* the activation suspended at `await fetch(...)`, with what its closure holds
Activation(query) ==
    [stage |-> "fetch",
     isInitPrompt |-> isInitPrompt,
     threadId |-> threadId,
     url |-> ApiEndpoint(isInitPrompt, config),
     body |-> RequestBody(query, isInitPrompt, threadId)]

\* variant: setError(null) left out
handleSendMessageKeepingError ==
    /\ isOpen
    /\ event' = [name |-> "send", arg |-> None]
    /\ IF ShouldReturn(inputValue, loading)
       THEN UNCHANGED <<isOpen, messages, inputValue, showOnboarding, error,
                        threadId, isInitPrompt, loading, calls, now, config>>
       ELSE /\ Len(messages) + Len(calls) + 2 <= MaxMessages
            /\ showOnboarding' = FALSE
            /\ messages' = AddMessage(messages, UserMessage(Trim(inputValue), now))
            /\ inputValue' = <<>>
            /\ loading' = TRUE
            /\ calls' = Append(calls, Activation(Trim(inputValue)))
            /\ UNCHANGED <<isOpen, error, threadId, isInitPrompt, now, config>>

handleSendMessage ==
    /\ isOpen
    /\ event' = [name |-> "send", arg |-> None]
    /\ IF ShouldReturn(inputValue, loading)
       THEN UNCHANGED <<isOpen, messages, inputValue, showOnboarding, error,
                        threadId, isInitPrompt, loading, calls, now, config>>
       ELSE /\ Len(messages) + Len(calls) + 2 <= MaxMessages
            /\ showOnboarding' = FALSE
            /\ messages' = AddMessage(messages, UserMessage(Trim(inputValue), now))
            /\ inputValue' = <<>>
            /\ loading' = TRUE
            /\ error' = None
            /\ calls' = Append(calls, Activation(Trim(inputValue)))
            /\ UNCHANGED <<isOpen, threadId, isInitPrompt, now, config>>

----------------------------------------------------------------------------
(* handleSendMessage, resumed *)

RemoveAt(s, i) == SubSeq(s, 1, i - 1) \o SubSeq(s, i + 1, Len(s))

\* variant: the fallback text whatever was thrown
ErrorMessageAlwaysGeneric(thrown) == UnexpectedError

\* line 120
ErrorMessage(thrown) ==
    IF thrown.isError THEN thrown.message ELSE UnexpectedError

\* variant: the entry of a failure given the id of the clock, as a user
\* entry is
ErrorMsgAtNow(errorMessage, t) ==
    [text |-> ErrorPrefix \o errorMessage, sender |-> "ai", source |-> None,
     id |-> ToString(t)]

\* lines 123-127
ErrorMsg(errorMessage, t) ==
    [text |-> ErrorPrefix \o errorMessage, sender |-> "ai", source |-> None,
     id |-> ToString(t + 1)]

\* lines 109-114
AiMessage(data, t) ==
    [text |-> IF data.answer = None
              THEN NoAnswerText
              ELSE OrElse(data.answer[1].text, NoAnswerText),
     sender |-> "ai",
     source |-> IF data.answer = None THEN None ELSE data.answer[1].source,
     id |-> ToString(t + 1)]

\* variant: the status of the response not looked at
IsOkAlways(res) == TRUE

\* res.ok, line 94
IsOk(res) == res.ok

\* line 95
HttpError(res) ==
    [isError |-> TRUE, message |-> HttpErrorPrefix \o ToString(res.status)]

\* variant: the body's message without the fallback text
ApiErrorWithoutFallback(data) ==
    [isError |-> TRUE,
     message |-> IF data.message = None THEN <<>> ELSE data.message[1]]

\* line 101
ApiError(data) ==
    [isError |-> TRUE, message |-> OrElse(data.message, FailedToGetResponse)]

\* variants: binding on every response that carries a threadId; binding on
\* the first successful response whether or not it carries one
BindsThreadAlways(isInit, data) == Truthy(data.threadId)
BindsThreadWithoutId(isInit, data) == isInit

\* line 104, with the isInitPrompt of the closure
BindsThread(isInit, data) == isInit /\ Truthy(data.threadId)

\* variant: setLoading(false) left out
FinallyKeepsLoading(isLoading) == isLoading

\* line 130
Finally(isLoading) == FALSE

\* the catch block followed by the finally block, for activation i
Catch(i, thrown) ==
    /\ error' = Some(ErrorMessage(thrown))
    /\ messages' = AddMessage(messages, ErrorMsg(ErrorMessage(thrown), now))
    /\ loading' = Finally(loading)
    /\ calls' = RemoveAt(calls, i)
    /\ UNCHANGED <<isOpen, inputValue, showOnboarding, threadId, isInitPrompt,
                   now, config>>

\* lines 104-116 followed by the finally block, for activation i
Then(i, data) ==
    /\ IF BindsThread(calls[i].isInitPrompt, data)
       THEN threadId' = data.threadId /\ isInitPrompt' = FALSE
       ELSE UNCHANGED <<threadId, isInitPrompt>>
    /\ messages' = AddMessage(messages, AiMessage(data, now))
    /\ loading' = Finally(loading)
    /\ calls' = RemoveAt(calls, i)
    /\ UNCHANGED <<isOpen, inputValue, showOnboarding, error, now, config>>

\* fetch() rejects: transport fault
FetchRejected(i, fault) ==
    /\ calls[i].stage = "fetch"
    /\ event' = [name |-> "fetchRejected", arg |-> fault]
    /\ Catch(i, fault)

\* fetch() resolves with a Response: lines 94-98
FetchResolved(i, res) ==
    /\ calls[i].stage = "fetch"
    /\ event' = [name |-> "fetchResolved", arg |-> res]
    /\ IF ~IsOk(res)
       THEN Catch(i, HttpError(res))
       ELSE /\ calls' = [calls EXCEPT ![i].stage = "json"]
            /\ UNCHANGED <<isOpen, messages, inputValue, showOnboarding,
                           error, threadId, isInitPrompt, loading, now, config>>

\* res.json() rejects: malformed body
JsonRejected(i) ==
    /\ calls[i].stage = "json"
    /\ event' = [name |-> "jsonRejected", arg |-> JsonFault]
    /\ Catch(i, JsonFault)

\* variant: the thread bound before the success field is looked at
JsonResolvedBindingFirst(i, data) ==
    /\ calls[i].stage = "json"
    /\ event' = [name |-> "jsonResolved", arg |-> data]
    /\ IF data = None
       THEN Catch(i, NullFault)
       ELSE IF data[1].success
            THEN Then(i, data[1])
            ELSE /\ IF BindsThread(calls[i].isInitPrompt, data[1])
                    THEN threadId' = data[1].threadId /\ isInitPrompt' = FALSE
                    ELSE UNCHANGED <<threadId, isInitPrompt>>
                 /\ error' = Some(ErrorMessage(ApiError(data[1])))
                 /\ messages' = AddMessage(messages,
                        ErrorMsg(ErrorMessage(ApiError(data[1])), now))
                 /\ loading' = Finally(loading)
                 /\ calls' = RemoveAt(calls, i)
                 /\ UNCHANGED <<isOpen, inputValue, showOnboarding, now, config>>

\* res.json() resolves with the decoded body: lines 100-116
JsonResolved(i, data) ==
    /\ calls[i].stage = "json"
    /\ event' = [name |-> "jsonResolved", arg |-> data]
    /\ IF data = None
       THEN Catch(i, NullFault)
       ELSE IF ~data[1].success
            THEN Catch(i, ApiError(data[1]))
            ELSE Then(i, data[1])

----------------------------------------------------------------------------
(* Specification *)

FetchRejects ==
    \E i \in DOMAIN calls : \E fault \in FetchFaults : FetchRejected(i, fault)

FetchResolves ==
    \E i \in DOMAIN calls : \E res \in Responses : FetchResolved(i, res)

JsonRejects ==
    \E i \in DOMAIN calls : JsonRejected(i)

JsonResolves ==
    \E i \in DOMAIN calls : \E data \in JsonBodies : JsonResolved(i, data)

Next ==
    \/ Open
    \/ Close
    \/ Tick
    \/ \E value \in InputTexts : handleInputChange(value)
    \/ handleSendMessage
    \/ FetchRejects
    \/ FetchResolves
    \/ JsonRejects
    \/ JsonResolves

\* an awaited promise settles
Settle == FetchRejects \/ FetchResolves \/ JsonRejects \/ JsonResolves

Spec == Init /\ [][Next]_vars

\* every awaited promise eventually settles
FairSpec == Spec /\ WF_vars(Settle)

----------------------------------------------------------------------------
(* Steps and outcomes, read off the dispatched event *)

\* the step dispatches the event named n (Tick dispatches none)
Dispatched(n) == event'.name = n /\ now' = now

\* the event records an exchange that completed successfully: HTTP success
\* status and truthy success field
IsSuccess(ev) ==
    /\ ev.name = "jsonResolved"
    /\ ev.arg # None
    /\ ev.arg[1].success

\* the event records an exchange that completed with a failure
IsFailure(ev) ==
    \/ ev.name = "fetchRejected"
    \/ ev.name = "fetchResolved" /\ ~ev.arg.ok
    \/ ev.name = "jsonRejected"
    \/ ev.name = "jsonResolved" /\ (ev.arg = None \/ ~ev.arg[1].success)

\* the step completes an exchange with a failure
Failed == now' = now /\ IsFailure(event')

\* the step issues an outbound request
Issues == Len(calls') > Len(calls)

----------------------------------------------------------------------------
(* C1 *)

\* C1: at most one outbound request is in flight in every reachable state,
\* and a handleSendMessage dispatched while loading is true issues no request
\* and leaves the transcript unchanged.
C1_OneInFlight ==
    /\ [](Len(calls) <= 1)
    /\ [][(Dispatched("send") /\ loading)
             => (calls' = calls /\ messages' = messages)]_vars

\* a send was dispatched, with text in the buffer, while the first request
\* was already past its first await
C1_Witness ==
    /\ loading
    /\ event.name = "send"
    /\ Trim(inputValue) # <<>>
    /\ Len(calls) = 1
    /\ calls[1].stage = "json"

----------------------------------------------------------------------------
(* C2 *)

----------------------------------------------------------------------------
(* C3 *)

\* C3: once threadId holds a value, no step changes it.
C3_ThreadIdSetOnce ==
    [][Truthy(threadId) => threadId' = threadId]_vars

\* a later successful exchange carried another threadId
C3_Witness ==
    /\ IsSuccess(event)
    /\ Truthy(event.arg[1].threadId)
    /\ Truthy(threadId)
    /\ event.arg[1].threadId # threadId

----------------------------------------------------------------------------
(* C4 *)

\* the follow-up URL: apiEndpoint with '/chat' replaced by '/chat/follow-up',
\* or the default follow-up URL
FollowUpUrl ==
    IF Truthy(config.apiEndpoint)
          /\ Replace(config.apiEndpoint[1], <<"/chat">>, <<"/chat", "/follow-up">>) # <<>>
    THEN Replace(config.apiEndpoint[1], <<"/chat">>, <<"/chat", "/follow-up">>)
    ELSE <<"http://localhost:3000/api", "/chat", "/follow-up">>

\* C4: every request issued while threadId is set carries that threadId in
\* its body and goes to the follow-up URL.
C4_FollowUpCarriesThread ==
    [][(Issues /\ Truthy(threadId))
          => LET r == calls'[Len(calls')]
             IN r.body.threadId = threadId /\ r.url = FollowUpUrl]_vars

\* a request is in flight that carries the thread bound earlier, to a
\* follow-up URL that differs from the initial one
C4_Witness ==
    /\ Len(calls) = 1
    /\ Truthy(threadId)
    /\ calls[1].body.threadId = threadId
    /\ calls[1].url = <<"https://h/api", "/chat", "/follow-up">>

----------------------------------------------------------------------------
(* C5 *)

\* the step is an accepted submit: text in the buffer, nothing in flight
Accepted == Dispatched("send") /\ Trim(inputValue) # <<>> /\ ~loading

\* new is old with exactly one entry, of sender who, appended
Grows(old, new, who) ==
    /\ Len(new) = Len(old) + 1
    /\ SubSeq(new, 1, Len(old)) = old
    /\ new[Len(new)].sender = who

\* C5: an accepted submit appends exactly one user entry; the successful
\* completion of its exchange appends exactly one ai entry right after that
\* user entry and ends the exchange; no other step between or after them
\* touches the transcript.  n such exchanges from an idle state therefore
\* add 2n entries: user, ai, user, ai, ... in submission order.
C5_TwoPerExchange ==
    [][/\ Accepted => (Grows(messages, messages', "user") /\ loading')
       /\ (Dispatched("jsonResolved") /\ IsSuccess(event'))
             => /\ Grows(messages, messages', "ai")
                /\ messages[Len(messages)].sender = "user"
                /\ ~loading'
       /\ (loading = loading') => messages' = messages]_vars

\* two submissions, both answered: four entries in submission order
C5_Witness ==
    /\ ~loading
    /\ Len(messages) = 4
    /\ messages[1].sender = "user" /\ messages[1].text = <<"a">>
    /\ messages[2].sender = "ai" /\ messages[2].text = <<"Hi!">>
    /\ messages[3].sender = "user" /\ messages[3].text = <<"b", " ", "c">>
    /\ messages[4].sender = "ai" /\ messages[4].text = NoAnswerText

----------------------------------------------------------------------------
(* C6 *)

\* C6: a step that completes an exchange with a failure leaves loading
\* false and error a non-empty string, and appends exactly one ai entry whose
\* text contains that string.
C6_FailureRecorded ==
    [][Failed
          => /\ ~loading'
             /\ Truthy(error')
             /\ Grows(messages, messages', "ai")
             /\ Includes(messages'[Len(messages')].text, error'[1])]_vars

\* an exchange failed with success:false and an empty message field
C6_Witness ==
    /\ event.name = "jsonResolved"
    /\ event.arg # None
    /\ ~event.arg[1].success
    /\ event.arg[1].message = Some(<<>>)
    /\ error = Some(FailedToGetResponse)
    /\ ~loading

----------------------------------------------------------------------------
(* C7 *)

\* C7: whenever loading is true it eventually becomes false, given that
\* every awaited promise eventually settles.
C7_LoadingClears == loading ~> ~loading

\* an exchange has run to its end and cleared the flag
C7_Witness ==
    /\ ~loading
    /\ calls = <<>>
    /\ Len(messages) = 2
    /\ event.name \in {"fetchRejected", "fetchResolved", "jsonRejected",
                       "jsonResolved"}

----------------------------------------------------------------------------
(* C8 *)

\* C8: the ids of the transcript are pairwise distinct.
C8_DistinctIds ==
    \A i, j \in DOMAIN messages : i # j => messages[i].id # messages[j].id

----------------------------------------------------------------------------
(* C9 *)

\* C9: a handleSendMessage dispatched with an empty or whitespace-only
\* buffer changes none of messages, loading, error, threadId, isInitPrompt,
\* and issues no request.
C9_BlankSubmitNoOp ==
    [][(Dispatched("send") /\ Trim(inputValue) = <<>>)
          => UNCHANGED <<messages, loading, error, threadId, isInitPrompt,
                         calls>>]_vars

\* a send was dispatched on a whitespace-only buffer with nothing in flight
C9_Witness ==
    /\ event.name = "send"
    /\ inputValue = <<" ">>
    /\ ~loading

----------------------------------------------------------------------------
(* C10 *)

\* C10: a step that completes an exchange with a failure leaves loading
\* false, and a handleSendMessage dispatched with text in the buffer while
\* loading is false appends a user entry and issues a request, whatever has
\* failed before.
C10_UsableAfterFailure ==
    [][/\ Failed => ~loading'
       /\ Accepted
             => /\ Grows(messages, messages', "user")
                /\ Len(calls') = Len(calls) + 1]_vars

\* a submit was accepted right after a failed exchange, and its own
\* exchange has failed too
C10_Witness ==
    /\ Len(messages) = 4
    /\ SubSeq(messages[2].text, 1, 1) = ErrorPrefix
    /\ messages[3].sender = "user"
    /\ SubSeq(messages[4].text, 1, 1) = ErrorPrefix
    /\ IsFailure(event)
    /\ ~loading

----------------------------------------------------------------------------
(* C11 *)

\* the event records a transport-level fault: fetch() or res.json() rejected
IsTransportFault(ev) == ev.name \in {"fetchRejected", "jsonRejected"}

\* the state shows the text m as the recorded error and as the text of the
\* last entry of the transcript, an ai entry
Shows(m) ==
    /\ error = Some(m)
    /\ messages # <<>>
    /\ messages[Len(messages)].sender = "ai"
    /\ messages[Len(messages)].text = <<"Error: ">> \o m

\* C11 as stated: after a transport-level fault the recorded error and the
\* appended ai entry carry the generic fallback message.
C11_Original ==
    IsTransportFault(event)
        => Shows(<<"An unexpected error occurred. Please try again.">>)

\* C11 amended: after a transport-level fault the recorded error and the
\* appended ai entry carry the message of the thrown Error, and the generic
\* fallback message only when the thrown value is not an Error.
C11_Amended ==
    IsTransportFault(event)
        => Shows(IF event.arg.isError
                 THEN event.arg.message
                 ELSE <<"An unexpected error occurred. Please try again.">>)

\* fetch() rejected with the platform's TypeError, whose message is shown
C11_Witness ==
    /\ event.name = "fetchRejected"
    /\ event.arg.isError
    /\ error = Some(<<"Failed to fetch">>)
    /\ ~loading

----------------------------------------------------------------------------
(* C12 *)

\* m is the entry the catch block appends
IsErrorEntry(m) ==
    m.sender = "ai" /\ m.text # <<>> /\ Head(m.text) = "Error: "

\* the step ends an exchange
Completes == now' = now /\ Len(calls') < Len(calls)

\* C12: an ai answer entry is appended, and threadId or isInitPrompt
\* changes, only in a step that resolves res.json() with a truthy success
\* field, which only a response of success status leads to; a response of
\* another status ends the exchange at once, and every exchange that ends
\* otherwise takes the failure path: an error entry, error set, no binding.
C12_SuccessNeedsBoth ==
    [][/\ (now' = now /\ Len(messages') > Len(messages)
              /\ messages'[Len(messages')].sender = "ai"
              /\ ~IsErrorEntry(messages'[Len(messages')]))
             => IsSuccess(event')
       /\ (threadId' # threadId \/ isInitPrompt' # isInitPrompt)
             => (now' = now /\ IsSuccess(event'))
       /\ (Dispatched("fetchResolved") /\ ~event'.arg.ok) => Completes
       /\ (Completes /\ ~IsSuccess(event'))
             => /\ Truthy(error')
                /\ Len(messages') = Len(messages) + 1
                /\ IsErrorEntry(messages'[Len(messages')])
                /\ UNCHANGED <<threadId, isInitPrompt>>]_vars

\* a body with success:false that carries a threadId arrived with HTTP 200
\* in the initial phase: error entry, no binding
C12_Witness ==
    /\ event.name = "jsonResolved"
    /\ event.arg # None
    /\ ~event.arg[1].success
    /\ Truthy(event.arg[1].threadId)
    /\ threadId = None
    /\ isInitPrompt
    /\ IsErrorEntry(messages[Len(messages)])

----------------------------------------------------------------------------
(* C13 *)

\* the initial URL: apiEndpoint, or the default initial URL
InitialUrl ==
    IF Truthy(config.apiEndpoint)
    THEN config.apiEndpoint[1]
    ELSE <<"http://localhost:3000/api", "/chat">>

\* C13: the request an accepted submit issues carries the trimmed text as
\* query; with isInitPrompt true at the submit it goes to the initial URL
\* and its body has no threadId; otherwise it goes to the follow-up URL and
\* its body has the threadId exactly when one is known.
C13_RequestShape ==
    [][Issues
          => LET r == calls'[Len(calls')]
             IN /\ r.body.query = messages'[Len(messages')].text
                /\ IF isInitPrompt
                   THEN r.url = InitialUrl /\ r.body.threadId = None
                   ELSE /\ r.url = FollowUpUrl
                        /\ r.body.threadId =
                              IF Truthy(threadId) THEN threadId ELSE None]_vars

\* an initial query is in flight to the default initial URL, its body
\* holding the query only
C13_Witness ==
    /\ Len(calls) = 1
    /\ isInitPrompt
    /\ config.apiEndpoint = None
    /\ calls[1].url = <<"http://localhost:3000/api", "/chat">>
    /\ calls[1].body = [query |-> <<"b", " ", "c">>, threadId |-> None]

----------------------------------------------------------------------------
(* C14 *)

\* C14: in the one step of an accepted submit, before any settlement, a
\* user entry is appended, the buffer is emptied, loading becomes true, error
\* becomes null and exactly one request is issued, suspended at fetch.
C14_AcceptedSubmit ==
    [][Accepted
          => /\ Grows(messages, messages', "user")
             /\ inputValue' = <<>>
             /\ loading'
             /\ error' = None
             /\ Len(calls') = Len(calls) + 1
             /\ SubSeq(calls', 1, Len(calls)) = calls
             /\ calls'[Len(calls')].stage = "fetch"]_vars

\* a submit was accepted after a failed exchange: the error of that
\* exchange is cleared and the new request is waiting for fetch
C14_Witness ==
    /\ event.name = "send"
    /\ loading
    /\ Len(messages) = 3
    /\ IsErrorEntry(messages[2])
    /\ messages[3].sender = "user"
    /\ error = None
    /\ inputValue = <<>>
    /\ Len(calls) = 1
    /\ calls[1].stage = "fetch"

----------------------------------------------------------------------------
(* C15 *)

\* C15: in every step the previous transcript is a prefix of the new one.
C15_AppendOnly ==
    [][/\ Len(messages') >= Len(messages)
       /\ SubSeq(messages', 1, Len(messages)) = messages]_vars

\* a transcript of four entries has gone through a close of the panel
C15_Witness ==
    /\ Len(messages) = 4
    /\ event.name = "close"
    /\ ~isOpen

----------------------------------------------------------------------------
(* C16 *)

\* C16: a handleInputChange step sets the buffer to exactly the value of
\* the event and leaves error null, and changes none of messages, loading,
\* threadId, isInitPrompt, isOpen.
C16_UpdateInput ==
    [][Dispatched("change")
          => /\ inputValue' = event'.arg
             /\ error' = None
             /\ UNCHANGED <<messages, loading, threadId, isInitPrompt,
                            isOpen, calls>>]_vars

\* text with white space around it was typed over the error of a failed
\* exchange
C16_Witness ==
    /\ event.name = "change"
    /\ inputValue = <<" ", "a", " ">>
    /\ error = None
    /\ ~loading
    /\ Len(messages) = 2
    /\ IsErrorEntry(messages[2])

----------------------------------------------------------------------------
(* C17 *)

\* C17: a step of the launcher button sets isOpen, a step of the overlay or
\* the close button clears it, and neither changes messages, threadId,
\* isInitPrompt, loading, error, the buffer or the requests in flight.
C17_OpenCloseOnly ==
    [][(Dispatched("open") \/ Dispatched("close"))
          => /\ isOpen' = (event'.name = "open")
             /\ UNCHANGED <<messages, threadId, isInitPrompt, loading, error,
                            inputValue, calls>>]_vars

\* the panel was closed while a request was in flight and text was in the
\* buffer
C17_Witness ==
    /\ event.name = "close"
    /\ ~isOpen
    /\ loading
    /\ Len(calls) = 1
    /\ Len(messages) = 3
    /\ inputValue # <<>>

----------------------------------------------------------------------------
(* C18 *)

\* C18: in every reachable state isInitPrompt is false exactly when
\* threadId holds a non-empty value.
C18_FlagIffThread == (~isInitPrompt) <=> Truthy(threadId)

\* the thread is bound and a later exchange has started
C18_Witness ==
    /\ ~isInitPrompt
    /\ threadId = Some(<<"t2">>)
    /\ loading
    /\ Len(messages) = 3

----------------------------------------------------------------------------
(* C19 *)

\* C19: in every reachable state the transcript alternates user, ai, user,
\* ai, ... from a user entry; its length is even when loading is false, and
\* odd, ending in the pending user entry, when loading is true.
C19_Alternates ==
    /\ \A k \in DOMAIN messages :
           messages[k].sender = IF k % 2 = 1 THEN "user" ELSE "ai"
    /\ loading <=> (Len(messages) % 2 = 1)

\* the second exchange is pending after a first one that failed
C19_Witness ==
    /\ loading
    /\ Len(messages) = 3
    /\ IsErrorEntry(messages[2])
    /\ Len(calls) = 1
    /\ calls[1].stage = "json"

----------------------------------------------------------------------------
(* C20 *)

\* C20: while an exchange is in flight threadId and isInitPrompt are what
\* its closure captured at the submit; the step that completes it with a
\* failure changes neither; and the request issued after a first exchange
\* that failed is an initial query again: initial URL, no threadId.
C20_FailureKeepsPhase ==
    /\ [](\A i \in DOMAIN calls :
              calls[i].isInitPrompt = isInitPrompt /\ calls[i].threadId = threadId)
    /\ [][Failed => UNCHANGED <<threadId, isInitPrompt>>]_vars
    /\ [][(Issues /\ Len(messages) = 2 /\ IsErrorEntry(messages[2]))
             => LET r == calls'[Len(calls')]
                IN r.url = InitialUrl /\ r.body.threadId = None]_vars

\* the first exchange failed with a body that carried a threadId, and the
\* next request is in flight as an initial query
C20_Witness ==
    /\ Len(messages) = 3
    /\ messages[2].text = <<"Error: ", "Failed to get response from AI">>
    /\ isInitPrompt
    /\ threadId = None
    /\ Len(calls) = 1
    /\ calls[1].isInitPrompt
    /\ calls[1].body.threadId = None

====
